---- MODULE Spec2Model ----
(***************************************************************************)
(* Subscription ledger and eligibility extract of the Squarespace webhook  *)
(* service (src/main.js).  The elided "plan / date logic" of               *)
(* updateSubscriptionRecord (src/main.js:92) is taken from the previous    *)
(* revision of the same function (src/unnamed/part_000:559-591).           *)
(*                                                                         *)
(* Calendar dates are triples <<year, month, day>>; a 'yyyyMMdd' string is *)
(* the number y*10000 + m*100 + d and an 'MMDDYYYY' string the number      *)
(* m*1000000 + d*10000 + y.  An instant is kept as its UTC calendar date;   *)
(* env.TZ is the offset of the process's time zone from UTC in hours.      *)
(*                                                                         *)
(* Spec is the webhook handler with two requests in flight, DailySpec the  *)
(* handler together with the daily fixed-width job, and PureSpec applies   *)
(* the date rule and the ledger file's load and save to sample inputs.     *)
(***************************************************************************)
EXTENDS Integers, Sequences, FiniteSets, TLC

VARIABLES
  subscriptionsStore, \* in-memory ledger: entries [key, value] in insertion order
  disk,               \* subscriptions.json
  eligFile,           \* local eligibility file of the day
  remote,             \* what the SFTP server last received
  req,                \* one record per in-flight webhook request
  nEvents,            \* webhook events received so far
  committed,          \* history: the ledger left by the last mutation whose save returned
  env,                \* process environment: TZ, CAREINGTON_GROUP_CODE, and the
                      \* local calendar date TODAY that new Date() reads
  job,                \* position of the daily job
  sdfFile,            \* local fixed-width file of the day
  remoteSdf,          \* the fixed-width file the SFTP server last received
  call,               \* PureSpec: the function applied
  input,              \* PureSpec: its argument
  output              \* PureSpec: its result

handlerVars == <<subscriptionsStore, disk, eligFile, remote, req, nEvents, committed>>
jobVars == <<job, sdfFile, remoteSdf>>
pureVars == <<call, input, output>>

vars == <<handlerVars, jobVars, pureVars, env>>

\* ------------------------------------------------------------------ values

NULL == "null"
UNDEF == "undefined"
SENTINEL == "test-order-id"
GROUP_CODE == "GRP"

Req == {"r1", "r2"}

\* events delivered in one run
MaxEvents == 2

\* ------------------------------------------------------------- date rules

IsLeap(y) == (y % 4 = 0 /\ y % 100 # 0) \/ y % 400 = 0

DaysInMonth(y, m) ==
  IF m = 2 THEN (IF IsLeap(y) THEN 29 ELSE 28)
  ELSE IF m \in {4, 6, 9, 11} THEN 30 ELSE 31

Min(a, b) == IF a < b THEN a ELSE b

\* addMonths as Date.prototype.setMonth does it: a day the target month lacks
\* runs over into the month after
addMonthsOverflow(d, n) ==
  LET k == (d[2] - 1) + n
      y == d[1] + (k \div 12)
      m == (k % 12) + 1
  IN IF d[3] <= DaysInMonth(y, m) THEN <<y, m, d[3]>>
     ELSE <<y, m + 1, d[3] - DaysInMonth(y, m)>>

\* date-fns addMonths: keep the day, clamp to the end of the target month
addMonths(d, n) ==
  LET k == (d[2] - 1) + n
      y == d[1] + (k \div 12)
      m == (k % 12) + 1
  IN <<y, m, Min(d[3], DaysInMonth(y, m))>>

addYears(d, n) == addMonths(d, n * 12)

formatYYYYMMDD(d) == d[1] * 10000 + d[2] * 100 + d[3]

\* computeNextDueDate advancing every plan but Annual by a month
computeNextDueDateMonthlyDefault(lastPaymentDate, subscriptionPlan) ==
  IF subscriptionPlan = "Annual" THEN addYears(lastPaymentDate, 1)
  ELSE addMonths(lastPaymentDate, 1)

\* computeNextDueDate returning the payment date for every plan
computeNextDueDateNoAdvance(lastPaymentDate, subscriptionPlan) == lastPaymentDate

computeNextDueDate(lastPaymentDate, subscriptionPlan) ==
  IF subscriptionPlan = "Monthly" THEN addMonths(lastPaymentDate, 1)
  ELSE IF subscriptionPlan = "Annual" THEN addYears(lastPaymentDate, 1)
  ELSE lastPaymentDate

\* offsets from UTC, in hours, of the zones the process may run in
TimeZones == {-5, 0, 9}

\* local calendar dates at which the clock is read
Todays == {<<2025, 3, 15>>, <<2025, 12, 16>>}

\* the calendar day before d
PrevDay(d) ==
  IF d[3] > 1 THEN <<d[1], d[2], d[3] - 1>>
  ELSE IF d[2] > 1 THEN <<d[1], d[2] - 1, DaysInMonth(d[1], d[2] - 1)>>
  ELSE <<d[1] - 1, 12, 31>>

\* the calendar day after d
NextDay(d) ==
  IF d[3] < DaysInMonth(d[1], d[2]) THEN <<d[1], d[2], d[3] + 1>>
  ELSE IF d[2] < 12 THEN <<d[1], d[2] + 1, 1>>
  ELSE <<d[1] + 1, 1, 1>>

\* the UTC calendar date of the instant that reads as hour o'clock of the
\* calendar day d in the zone
UtcDate(d, hour, zone) ==
  IF hour - zone < 0 THEN PrevDay(d)
  ELSE IF hour - zone >= 24 THEN NextDay(d)
  ELSE d

\* new Date('YYYY-MM-DD') is midnight UTC of that day; getFullYear, getMonth
\* and getDate read the instant in the process's zone: the same calendar day
\* at or east of UTC, the day before west of it
LocalFields(dateString, zone) ==
  IF zone < 0 THEN PrevDay(dateString) ELSE dateString

\* the mid-month rule moving every day to the first of the next month
FirstOfNextMonth(d) ==
  IF d[2] = 12 THEN <<d[1] + 1, 1, 1>> ELSE <<d[1], d[2] + 1, 1>>

\* the mid-month rule leaving a day up to the 15th as it is
FirstOfMonthKeepEarlyDay(d) ==
  IF d[3] <= 15 THEN d
  ELSE IF d[2] = 12 THEN <<d[1] + 1, 1, 1>> ELSE <<d[1], d[2] + 1, 1>>

\* first of the month for a day up to the 15th, first of the next month after it
FirstOfMonth(d) ==
  IF d[3] <= 15 THEN <<d[1], d[2], 1>>
  ELSE IF d[2] = 12 THEN <<d[1] + 1, 1, 1>> ELSE <<d[1], d[2] + 1, 1>>

\* dateString ? new Date(dateString) : new Date(); an absent dateString is <<>>
toCareingtonEffectiveDate(dateString, zone) ==
  FirstOfMonth(IF dateString = <<>> THEN env.TODAY
               ELSE LocalFields(dateString, zone))

formatDateMMDDYYYY(d) == d[2] * 1000000 + d[3] * 10000 + d[1]

\* ------------------------------------------------------- upstream orders

Billing(first, last) ==
  [firstName |-> first, lastName |-> last, address1 |-> "1 Main St",
   address2 |-> UNDEF, city |-> "Town", state |-> "TS",
   postalCode |-> "12345", phone |-> UNDEF]

Item(type, price, custom) ==
  [lineItemType |-> type, unitPricePaid |-> price,
   productName |-> "Membership", customizations |-> custom]

\* The orders the commerce platform holds, by order id.
Orders ==
  [o1 |-> [id |-> "o1", customerEmail |-> "a@x.com",
           fulfilledOn |-> <<2025, 1, 10>>, createdOn |-> <<2025, 1, 8>>,
           billingAddress |-> Billing("Jane", "Doe"),
           lineItems |-> <<Item("PAYWALL_PRODUCT", "19.99", <<>>)>>],
   o2 |-> [id |-> "o2", customerEmail |-> "a@x.com",
           fulfilledOn |-> <<>>, createdOn |-> <<2025, 12, 20>>,
           billingAddress |-> Billing("Janet", "Roe"),
           lineItems |-> <<Item("PHYSICAL", "5.00", <<>>),
                           Item("PAYWALL_PRODUCT", "159.00", <<>>)>>],
   o3 |-> [id |-> "o3", customerEmail |-> "b@x.com",
           fulfilledOn |-> <<2024, 1, 31>>, createdOn |-> <<2024, 1, 31>>,
           billingAddress |-> Billing("Bob", "Ray"),
           lineItems |-> <<Item("PAYWALL_PRODUCT", "19.99", <<>>)>>],
   o4 |-> [id |-> "o4", customerEmail |-> "b@x.com",
           fulfilledOn |-> <<2025, 3, 18>>, createdOn |-> <<2025, 3, 17>>,
           billingAddress |-> Billing("Bob", "Ray"),
           lineItems |-> <<Item("PAYWALL_PRODUCT", "159.00",
                                <<[label |-> "Date of Birth", value |-> "1/10/1982"]>>)>>],
   o5 |-> [id |-> "o5", customerEmail |-> "b@x.com",
           fulfilledOn |-> <<2025, 3, 18>>, createdOn |-> <<2025, 3, 17>>,
           billingAddress |-> Billing("Bob", "Ray"),
           lineItems |-> <<Item("PHYSICAL", "19.99", <<>>)>>],
   o6 |-> [id |-> "o6", customerEmail |-> "a@x.com",
           fulfilledOn |-> <<2025, 3, 18>>, createdOn |-> <<2025, 3, 17>>,
           billingAddress |-> Billing("Jane", "Doe"),
           lineItems |-> <<Item("PAYWALL_PRODUCT", "25.00", <<>>)>>]]

OrderIds == DOMAIN Orders

\* an order id the platform does not know
MISSING_ID == "o9"

Emails == {Orders[o].customerEmail : o \in OrderIds}

\* ------------------------------------------------------------ the ledger

Keys(store) == {store[i].key : i \in 1..Len(store)}

IndexOf(store, k) == CHOOSE i \in 1..Len(store) : store[i].key = k

\* SetKey writing the entry into a fresh object: the other entries are lost
SetKeyAlone(store, k, v) == <<[key |-> k, value |-> v]>>

\* SetKey adding an entry whether or not the key is there
SetKeyAppend(store, k, v) ==
  Append(store, [key |-> k, value |-> v])

\* subscriptionsStore[email] = record: an existing key keeps its place,
\* a new key goes last
SetKey(store, k, v) ==
  IF k \in Keys(store)
  THEN [store EXCEPT ![IndexOf(store, k)] = [key |-> k, value |-> v]]
  ELSE Append(store, [key |-> k, value |-> v])

\* delete subscriptionsStore[email]
DeleteKey(store, k) ==
  SelectSeq(store, LAMBDA e : e.key # k)

ObjectValues(store) == [i \in 1..Len(store) |-> store[i].value]

\* fields whose value can be undefined; JSON.stringify leaves them out
OptionalFields == {"uniqueId", "groupCode", "orderId", "productName"}

\* DropUndefined leaving out the optional fields whatever their value
DropOptionalFields(rec) ==
  [f \in DOMAIN rec \ OptionalFields |-> rec[f]]

DropUndefined(rec) ==
  [f \in {g \in DOMAIN rec : ~(g \in OptionalFields /\ rec[g] = UNDEF)} |-> rec[f]]

JSONStringify(store) ==
  [i \in 1..Len(store) |-> <<store[i].key, DropUndefined(store[i].value)>>]

JSONParse(text) ==
  [i \in 1..Len(text) |-> [key |-> text[i][1], value |-> text[i][2]]]

NoFile == [kind |-> "missing", text |-> <<>>]
CorruptFile == [kind |-> "corrupt", text |-> <<>>]

\* a file whose text is the JSON value null
NullFile == [kind |-> "null", text |-> <<>>]

\* the value null in subscriptionsStore: not a mapping (a property read or
\* write on it and Object.values of it throw a TypeError)
JSNull == <<[key |-> NULL]>>

\* loadSubscriptions: a missing or unparsable file gives the empty ledger,
\* any other file the value JSON.parse returns
loadSubscriptions(file) ==
  IF file.kind = "json" THEN JSONParse(file.text)
  ELSE IF file.kind = "null" THEN JSNull
  ELSE <<>>

\* fs.writeFileSync(path, content): "ok" writes the content; "fail" throws
\* before the file is opened; "truncate" throws after the file was opened
\* for writing, which leaves it empty
WriteOutcomes == {"ok", "fail", "truncate"}

saveSubscriptions(store, old, w) ==
  IF w = "ok" THEN [kind |-> "json", text |-> JSONStringify(store)]
  ELSE IF w = "fail" THEN old
  ELSE CorruptFile

\* -------------------------------------------------------- normalization

OrEmpty(x) == IF x = UNDEF THEN "" ELSE x

\* Plan taking every amount that is not the annual price for the monthly one
PlanOrMonthly(paymentAmount) ==
  IF paymentAmount = "159.00" THEN "Annual" ELSE "Monthly"

Plan(paymentAmount) ==
  IF paymentAmount = "19.99" THEN "Monthly"
  ELSE IF paymentAmount = "159.00" THEN "Annual"
  ELSE ""

IsSubscriptionItem(item) == item.lineItemType = "PAYWALL_PRODUCT"

HasSubscriptionItem(items) == \E i \in 1..Len(items) : IsSubscriptionItem(items[i])

\* items.find(item => item.lineItemType === "PAYWALL_PRODUCT")
FindSubscriptionItem(items) ==
  items[CHOOSE i \in 1..Len(items) :
          /\ IsSubscriptionItem(items[i])
          /\ \A j \in 1..(i - 1) : ~IsSubscriptionItem(items[j])]

\* label.toLowerCase().includes('date of birth')
DobLabels == {"Date of Birth", "Member date of birth (M/D/YYYY)"}

HasDobValue(item) ==
  \E i \in 1..Len(item.customizations) :
     /\ item.customizations[i].label \in DobLabels
     /\ \A j \in 1..(i - 1) : item.customizations[j].label \notin DobLabels
     /\ item.customizations[i].value \notin {"", UNDEF}

\* the payment date taken from createdOn whatever fulfilledOn holds
PaymentDateCreatedOn(orderDetails) == orderDetails.createdOn

\* the payment date: fulfilledOn, else createdOn
PaymentDate(orderDetails) ==
  IF orderDetails.fulfilledOn # <<>> THEN orderDetails.fulfilledOn
  ELSE orderDetails.createdOn

effectiveDateIso(orderDetails) == FirstOfMonth(PaymentDate(orderDetails))

\* the object stored under the customer's email
SubscriptionRecord(orderDetails) ==
  LET billing == orderDetails.billingAddress
      subscriptionItem == FindSubscriptionItem(orderDetails.lineItems)
      paymentAmount == subscriptionItem.unitPricePaid
      subscriptionPlan == Plan(paymentAmount)
      paymentDate == PaymentDate(orderDetails)
  IN [title |-> "", firstName |-> OrEmpty(billing.firstName), middleName |-> "",
      lastName |-> OrEmpty(billing.lastName), postName |-> "",
      uniqueId |-> orderDetails.id, sequenceNum |-> "00", filler |-> "",
      address1 |-> OrEmpty(billing.address1), address2 |-> OrEmpty(billing.address2),
      city |-> OrEmpty(billing.city), state |-> OrEmpty(billing.state),
      zip |-> OrEmpty(billing.postalCode), plus4 |-> "",
      homePhone |-> OrEmpty(billing.phone), workPhone |-> "",
      coverage |-> "MO", groupCode |-> env.CAREINGTON_GROUP_CODE, terminationDate |-> "",
      effectiveDate |-> effectiveDateIso(orderDetails), dateOfBirth |-> "",
      relation |-> "", studentStatus |-> "", filler2 |-> "", gender |-> "",
      email |-> orderDetails.customerEmail,
      lastPaymentDate |-> formatYYYYMMDD(paymentDate),
      paymentAmount |-> paymentAmount,
      subscriptionPlan |-> subscriptionPlan,
      nextDueDate |-> formatYYYYMMDD(computeNextDueDate(paymentDate, subscriptionPlan)),
      orderId |-> orderDetails.id,
      productName |-> subscriptionItem.productName]

\* What updateSubscriptionRecord does before it saves: "skip" (early
\* return), "throw" (parse is not imported, so a date-of-birth value raises
\* a ReferenceError before the store is touched) or "stored".
updateSubscriptionRecord(store, orderDetails) ==
  IF Len(orderDetails.lineItems) = 0 \/ ~HasSubscriptionItem(orderDetails.lineItems)
    THEN [outcome |-> "skip", store |-> store]
  ELSE IF Plan(FindSubscriptionItem(orderDetails.lineItems).unitPricePaid) = ""
    THEN [outcome |-> "skip", store |-> store]
  ELSE IF HasDobValue(FindSubscriptionItem(orderDetails.lineItems))
    THEN [outcome |-> "throw", store |-> store]
  ELSE [outcome |-> "stored",
        store |-> SetKey(store, orderDetails.customerEmail, SubscriptionRecord(orderDetails))]

\* removeSubscriptionRecord looking the record up under the order id
removeSubscriptionRecordByOrderId(store, orderDetails) ==
  IF orderDetails.id \in Keys(store)
  THEN [outcome |-> "stored", store |-> DeleteKey(store, orderDetails.id)]
  ELSE [outcome |-> "skip", store |-> store]

\* removeSubscriptionRecord saving whether or not it found a record
removeSubscriptionRecordAlwaysSaves(store, orderDetails) ==
  [outcome |-> "stored", store |-> DeleteKey(store, orderDetails.customerEmail)]

\* removeSubscriptionRecord removing the record only when it is the cancelled
\* order's
removeSubscriptionRecordSameOrder(store, orderDetails) ==
  IF /\ orderDetails.customerEmail \in Keys(store)
     /\ store[IndexOf(store, orderDetails.customerEmail)].value.orderId = orderDetails.id
  THEN [outcome |-> "stored", store |-> DeleteKey(store, orderDetails.customerEmail)]
  ELSE [outcome |-> "skip", store |-> store]

\* What removeSubscriptionRecord does before it saves.
removeSubscriptionRecord(store, orderDetails) ==
  IF orderDetails.customerEmail \in Keys(store)
  THEN [outcome |-> "stored", store |-> DeleteKey(store, orderDetails.customerEmail)]
  ELSE [outcome |-> "skip", store |-> store]

\* ---------------------------------------------------- eligibility extract

\* member.f || '' for a text property: '' when the property is absent
FieldOrEmpty(member, f) == IF f \in DOMAIN member THEN OrEmpty(member[f]) ELSE ""

\* the property each field of a member line is read from, in the order of the line
MemberFieldNames ==
  << "title", "firstName", "middleName", "lastName", "postName", "uniqueId",
     "sequenceNum", "filler", "address1", "address2", "city", "state", "zip",
     "plus4", "homePhone", "workPhone", "coverage", "groupCode", "terminationDate",
     "effectiveDate", "dateOfBirth", "relation", "studentStatus", "filler2",
     "gender", "email" >>

\* buildMemberLine leaving out a text field whose value is empty
buildMemberLineOmitEmpty(member) ==
  LET effectiveDate == IF "effectiveDate" \in DOMAIN member THEN member.effectiveDate
                       ELSE <<>>
      value(i) == IF i = 20
                  THEN formatDateMMDDYYYY(toCareingtonEffectiveDate(effectiveDate, env.TZ))
                  ELSE FieldOrEmpty(member, MemberFieldNames[i])
      kept == SelectSeq([i \in 1..26 |-> i], LAMBDA i : i = 20 \/ value(i) # "")
  IN [k \in 1..Len(kept) |-> value(kept[k])]

\* the 26 fields of a member line, in order (joined with '|')
buildMemberLine(member) ==
  LET effectiveDate == IF "effectiveDate" \in DOMAIN member THEN member.effectiveDate
                       ELSE <<>>
  IN << FieldOrEmpty(member, "title"), FieldOrEmpty(member, "firstName"),
        FieldOrEmpty(member, "middleName"), FieldOrEmpty(member, "lastName"),
        FieldOrEmpty(member, "postName"), FieldOrEmpty(member, "uniqueId"),
        FieldOrEmpty(member, "sequenceNum"), FieldOrEmpty(member, "filler"),
        FieldOrEmpty(member, "address1"), FieldOrEmpty(member, "address2"),
        FieldOrEmpty(member, "city"), FieldOrEmpty(member, "state"),
        FieldOrEmpty(member, "zip"), FieldOrEmpty(member, "plus4"),
        FieldOrEmpty(member, "homePhone"), FieldOrEmpty(member, "workPhone"),
        FieldOrEmpty(member, "coverage"), FieldOrEmpty(member, "groupCode"),
        FieldOrEmpty(member, "terminationDate"),
        formatDateMMDDYYYY(toCareingtonEffectiveDate(effectiveDate, env.TZ)),
        FieldOrEmpty(member, "dateOfBirth"), FieldOrEmpty(member, "relation"),
        FieldOrEmpty(member, "studentStatus"), FieldOrEmpty(member, "filler2"),
        FieldOrEmpty(member, "gender"), FieldOrEmpty(member, "email") >>

EmailOfLine(line) == line[Len(line)]

\* `${parentGroupCode}${mmddyy}_${suffix}${ext}`, the parts of the name in
\* order; mmddyy is formatDateMMDDYYYY(today).slice(0,6), the first six of the
\* eight digits MMDDYYYY
EligibilityFileName(parentGroupCode, today, isFull) ==
  [group |-> parentGroupCode,
   mmddyy |-> formatDateMMDDYYYY(today) \div 100,
   suffix |-> IF isFull THEN "full" ELSE "delta",
   ext |-> ".txt"]

\* generateEligibilityFile writing a line for the last member only
generateEligibilityFileLastOnly(members) ==
  IF members = <<>> THEN <<>> ELSE <<buildMemberLine(members[Len(members)])>>

\* generateEligibilityFile(members, group, true): the lines it writes
generateEligibilityFile(members) ==
  [i \in 1..Len(members) |-> buildMemberLine(members[i])]

\* fs.writeFileSync of the eligibility file: written, or an exception
WriteLines(lines, old, w) ==
  IF w = "ok" THEN [kind |-> "text", text |-> lines] ELSE old

\* the name the webhook handler's call generateEligibilityFile(membersArray,
\* process.env.CAREINGTON_GROUP_CODE, true) gives the file
HandlerFileName == EligibilityFileName(env.CAREINGTON_GROUP_CODE, env.TODAY, TRUE)

\* fs.writeFileSync(filePath, lines.join('\n')): the named file, or an exception
WriteEligibilityFile(name, lines, old, w) ==
  IF w = "ok" THEN [kind |-> "text", text |-> lines, name |-> name] ELSE old


\* ----------------------------------------------------- fixed-width extract

\* now < new Date('YYYY-MM-DD' of nextDueDate): the due date's midnight UTC is
\* later than now exactly when now's UTC calendar date is before the due date
isActiveSubscription(subscriptionRecord, now) ==
  formatYYYYMMDD(now) < subscriptionRecord.nextDueDate

\* column widths of the fixed-width layout: email, plan, last payment date,
\* next due date, amount, first name, last name, order id
Widths == <<50, 10, 8, 8, 8, 20, 20, 24>>

RECURSIVE Spaces(_)
Spaces(n) == IF n <= 0 THEN "" ELSE " " \o Spaces(n - 1)

\* String.prototype.padEnd / padStart with ' ': a string of the target length
\* or longer is returned as it is
padEnd(str, targetLength) == str \o Spaces(targetLength - Len(str))

padStart(str, targetLength) == Spaces(targetLength - Len(str)) \o str

\* the properties generateSubscriptionSDF calls padEnd or padStart on
SdfTextFields ==
  {"customerEmail", "subscriptionPlan", "paymentAmount", "firstName", "lastName",
   "orderId"}

\* the fixed-width line with the amount laid down unpadded
SdfLineAmountUnpadded(record) ==
  << padEnd(record.customerEmail, 50), padEnd(record.subscriptionPlan, 10),
     ToString(record.lastPaymentDate), ToString(record.nextDueDate),
     record.paymentAmount, padEnd(record.firstName, 20),
     padEnd(record.lastName, 20), padEnd(record.orderId, 24) >>

\* the eight fields of a fixed-width line, in order; the line is their
\* concatenation
SdfLine(record) ==
  << padEnd(record.customerEmail, 50), padEnd(record.subscriptionPlan, 10),
     ToString(record.lastPaymentDate), ToString(record.nextDueDate),
     padStart(record.paymentAmount, 8), padEnd(record.firstName, 20),
     padEnd(record.lastName, 20), padEnd(record.orderId, 24) >>

\* number of characters of a line
LineLength(line) ==
  Len(line[1]) + Len(line[2]) + Len(line[3]) + Len(line[4]) + Len(line[5])
    + Len(line[6]) + Len(line[7]) + Len(line[8])

\* record.f.padEnd(...) is a TypeError when the record has no property f
CanRender(record) ==
  \A f \in SdfTextFields : f \in DOMAIN record /\ record[f] # UNDEF

\* the records generateSubscriptionSDF renders, in the order of the ledger
ActiveRecords(subscriptions, now) ==
  SelectSeq(ObjectValues(subscriptions),
            LAMBDA record : isActiveSubscription(record, now))

\* generateSubscriptionSDF before it writes: the lines of the active records,
\* or "throw" when an active record lacks a property that is padded (padEnd
\* of undefined is a TypeError, and no file is written)
generateSubscriptionSDF(subscriptions, now) ==
  LET active == ActiveRecords(subscriptions, now)
  IN IF \E i \in 1..Len(active) : ~CanRender(active[i])
     THEN [outcome |-> "throw", lines |-> <<>>]
     ELSE [outcome |-> "ok", lines |-> [i \in 1..Len(active) |-> SdfLine(active[i])]]

\* the UTC dates at which the daily job is seen to run
Nows == {<<2024, 2, 29>>, <<2025, 6, 1>>, <<2027, 1, 1>>}

\* ------------------------------------------------------- webhook handler

\* the topic / status pairs of the events sent to the endpoint
EventKinds ==
  { <<"order.create", UNDEF>>, <<"order.update", "FULFILLED">>,
    <<"order.update", "CANCELED">>, <<"order.update", "PENDING">>,
    <<"extension.uninstall", "CANCELED">> }

\* the pairs the handler acts on
HandledKinds ==
  { <<"order.create", UNDEF>>, <<"order.update", "FULFILLED">>,
    <<"order.update", "CANCELED">> }

NODATA == "no-data"

\* data.orderId of an event; NODATA stands for a body without data
EventOrderIds == OrderIds \cup {SENTINEL, MISSING_ID, UNDEF, NODATA}

\* Classify taking every order.update that is not a cancellation for a fulfillment
ClassifyAnyUpdate(topic, update) ==
  IF topic = "order.create" \/ (topic = "order.update" /\ update # "CANCELED")
    THEN "upsert"
  ELSE IF topic = "order.update" /\ update = "CANCELED" THEN "cancel"
  ELSE "ignore"

\* create / fulfilled -> "upsert", canceled -> "cancel", anything else -> "ignore"
Classify(topic, update) ==
  IF topic = "order.create" \/ (topic = "order.update" /\ update = "FULFILLED")
    THEN "upsert"
  ELSE IF topic = "order.update" /\ update = "CANCELED" THEN "cancel"
  ELSE "ignore"

\* GET /commerce/orders/{id}: the order, or null when the call fails or the
\* platform has no such order
getOrderDetailsByOrderId(orderId, apiOk) ==
  IF apiOk /\ orderId \in OrderIds THEN orderId ELSE NULL

\* GET /commerce/orders and a random pick: any order, or null
getRandomOrder(apiOk, pick) ==
  IF apiOk THEN pick ELSE NULL

IdleReq ==
  [pc |-> "idle", route |-> "", orderId |-> "", sentinel |-> FALSE, other |-> FALSE,
   status |-> 0, body |-> "", fail |-> "none", op |-> "none"]

\* a request that has ended: "done" (answered with the status) or "threw" (an
\* exception left the handler and nothing was answered)
Ended(pc, status, body, fail) ==
  [IdleReq EXCEPT !.pc = pc, !.status = status, !.body = body, !.fail = fail]

Threw(fail) == Ended("threw", 0, "", fail)

\* the request without an order id answered with a success status
InvalidWebhookAnswered200 == Ended("done", 200, "Invalid webhook", "none")

InvalidWebhook == Ended("done", 400, "Invalid webhook", "none")
NoOrdersForTest == Ended("done", 404, "No orders for test", "lookup")
\* the failed lookup answered with a success status
OrderNotFoundAnswered200 == Ended("done", 200, "Order not found", "lookup")

OrderNotFound == Ended("done", 404, "Order not found", "lookup")
NoAction == Ended("done", 200, "No action for this event", "none")
FileUpdated == Ended("done", 200, "Eligibility file updated", "none")

\* HandleOrder writing the eligibility file from the ledger as it was before
\* the handler's own mutation
HandleOrderStaleFile(store, dsk, file, route, orderDetails, w1, w2) ==
  LET m == IF route = "upsert" THEN updateSubscriptionRecord(store, orderDetails)
           ELSE IF route = "cancel" THEN removeSubscriptionRecord(store, orderDetails)
           ELSE [outcome |-> "skip", store |-> store]
      saved == m.outcome = "stored"
      lines == generateEligibilityFile(ObjectValues(store))
      base == [store |-> store, disk |-> dsk, file |-> file, pc |-> "done",
               fail |-> "none", op |-> "none"]
  IN IF route = "ignore" THEN base
     ELSE IF m.outcome = "throw"
       THEN [base EXCEPT !.pc = "threw", !.fail = "normalize"]
     ELSE IF saved /\ w1 # "ok"
       THEN [base EXCEPT !.store = m.store, !.disk = saveSubscriptions(m.store, dsk, w1),
                         !.pc = "threw", !.fail = "persist", !.op = m.outcome]
     ELSE [base EXCEPT !.store = m.store,
                       !.disk = IF saved THEN saveSubscriptions(m.store, dsk, w1) ELSE dsk,
                       !.file = WriteEligibilityFile(HandlerFileName, lines, file, w2),
                       !.pc = IF w2 = "ok" THEN "connect" ELSE "threw",
                       !.fail = IF w2 = "ok" THEN "none" ELSE "encode",
                       !.op = m.outcome]

\* The handler from the order lookup's return to its next await
\* (src/main.js:511-534 and the call of sftp.connect in uploadEligibilityFile):
\* route, ledger operation with its save, eligibility file.  w1 and w2 are
\* the outcomes of the two file writes.
HandleOrder(store, dsk, file, route, orderDetails, w1, w2) ==
  LET m == IF route = "upsert" THEN updateSubscriptionRecord(store, orderDetails)
           ELSE IF route = "cancel" THEN removeSubscriptionRecord(store, orderDetails)
           ELSE [outcome |-> "skip", store |-> store]
      saved == m.outcome = "stored"
      lines == generateEligibilityFile(ObjectValues(m.store))
      base == [store |-> store, disk |-> dsk, file |-> file, pc |-> "done",
               fail |-> "none", op |-> "none"]
  IN IF route = "ignore" THEN base
     ELSE IF m.outcome = "throw"
       THEN [base EXCEPT !.pc = "threw", !.fail = "normalize"]
     ELSE IF saved /\ w1 # "ok"
       THEN [base EXCEPT !.store = m.store, !.disk = saveSubscriptions(m.store, dsk, w1),
                         !.pc = "threw", !.fail = "persist", !.op = m.outcome]
     ELSE [base EXCEPT !.store = m.store,
                       !.disk = IF saved THEN saveSubscriptions(m.store, dsk, w1) ELSE dsk,
                       !.file = WriteEligibilityFile(HandlerFileName, lines, file, w2),
                       !.pc = IF w2 = "ok" THEN "connect" ELSE "threw",
                       !.fail = IF w2 = "ok" THEN "none" ELSE "encode",
                       !.op = m.outcome]

\* ------------------------------------------------------------- actions

\* a ledger file left by an earlier run: b@x.com (order o3), then a@x.com (order o1)
EarlierLedger ==
  updateSubscriptionRecord(updateSubscriptionRecord(<<>>, Orders["o3"]).store,
                           Orders["o1"]).store

\* the setInterval callback threw: the uncaught exception ends the process
Alive == job # "crashed"

Init ==
  /\ env = [TZ |-> 0, CAREINGTON_GROUP_CODE |-> GROUP_CODE, TODAY |-> <<2025, 3, 15>>]
  /\ job = "idle"
  /\ sdfFile = NoFile
  /\ remoteSdf = NoFile
  /\ call = "none"
  /\ input = <<>>
  /\ output = <<>>
  /\ disk \in {NoFile, CorruptFile, saveSubscriptions(EarlierLedger, NoFile, "ok")}
  /\ subscriptionsStore = loadSubscriptions(disk)
  /\ eligFile = NoFile
  /\ remote = NoFile
  /\ req = [r \in Req |-> IdleReq]
  /\ nEvents = 0
  /\ committed = subscriptionsStore

Free(r) == req[r].pc \in {"idle", "done", "threw"}

\* a new request takes the first free slot (the slots are interchangeable)
FirstFree(r) == Free(r) /\ (r = "r2" => ~Free("r1"))

\* POST /webhook/squarespace up to its first await
Receive(r) ==
  /\ Alive
  /\ FirstFree(r)
  /\ nEvents < MaxEvents
  /\ nEvents' = nEvents + 1
  /\ \E kind \in EventKinds, id \in EventOrderIds :
       LET new == [IdleReq EXCEPT !.route = Classify(kind[1], kind[2]),
                                  !.orderId = id, !.sentinel = (id = SENTINEL),
                                  !.other = (kind \notin HandledKinds)]
       IN req' = [req EXCEPT ![r] =
                    IF id \in {NODATA, UNDEF}
                      THEN InvalidWebhook
                    ELSE IF id = SENTINEL THEN [new EXCEPT !.pc = "random"]
                    ELSE [new EXCEPT !.pc = "lookup"]]
  /\ UNCHANGED <<subscriptionsStore, disk, eligFile, remote, committed>>
  /\ UNCHANGED <<jobVars, pureVars, env>>

\* the await of getRandomOrder returns
RandomReturn(r) ==
  /\ Alive
  /\ req[r].pc = "random"
  /\ \E apiOk \in BOOLEAN, pick \in OrderIds :
       LET randomOrder == getRandomOrder(apiOk, pick)
       IN req' = [req EXCEPT ![r] =
                    IF randomOrder = NULL
                      THEN NoOrdersForTest
                    ELSE [@ EXCEPT !.pc = "lookup", !.orderId = randomOrder]]
  /\ UNCHANGED <<subscriptionsStore, disk, eligFile, remote, nEvents, committed>>
  /\ UNCHANGED <<jobVars, pureVars, env>>

\* the await of getOrderDetailsByOrderId returns and the handler runs on to
\* its next await
LookupReturn(r) ==
  /\ Alive
  /\ req[r].pc = "lookup"
  /\ \E apiOk \in BOOLEAN :
       LET orderDetails == getOrderDetailsByOrderId(req[r].orderId, apiOk)
       IN IF orderDetails = NULL
          THEN /\ req' = [req EXCEPT ![r] = OrderNotFound]
               /\ UNCHANGED <<subscriptionsStore, disk, eligFile, committed>>
          ELSE \E w1 \in WriteOutcomes, w2 \in {"ok", "fail"} :
               LET h == HandleOrder(subscriptionsStore, disk, eligFile, req[r].route,
                                    Orders[orderDetails], w1, w2)
               IN /\ subscriptionsStore' = h.store
                  /\ disk' = h.disk
                  /\ eligFile' = h.file
                  /\ committed' = IF h.op = "stored" /\ h.fail # "persist"
                                  THEN h.store ELSE committed
                  /\ req' = [req EXCEPT ![r] =
                               IF h.pc = "connect"
                               THEN [@ EXCEPT !.pc = h.pc, !.orderId = "",
                                              !.sentinel = FALSE, !.other = FALSE,
                                              !.op = h.op]
                               ELSE IF h.pc = "done" THEN NoAction
                               ELSE Threw(h.fail)]
  /\ UNCHANGED <<remote, nEvents>>
  /\ UNCHANGED <<jobVars, pureVars, env>>

\* uploadEligibilityFile: await sftp.connect
SftpConnect(r) ==
  /\ Alive
  /\ req[r].pc = "connect"
  /\ \E ok \in BOOLEAN :
       req' = [req EXCEPT ![r] =
                 IF ok THEN [@ EXCEPT !.pc = "put"]
                 ELSE Threw("deliver")]
  /\ UNCHANGED <<subscriptionsStore, disk, eligFile, remote, nEvents, committed>>
  /\ UNCHANGED <<jobVars, pureVars, env>>

\* uploadEligibilityFile: await sftp.put, which sends the local file as it is now
SftpPut(r) ==
  /\ Alive
  /\ req[r].pc = "put"
  /\ \E ok \in BOOLEAN :
       /\ req' = [req EXCEPT ![r] =
                    IF ok THEN [@ EXCEPT !.pc = "end"]
                    ELSE Threw("deliver")]
       /\ remote' = IF ok THEN eligFile ELSE remote
  /\ UNCHANGED <<subscriptionsStore, disk, eligFile, nEvents, committed>>
  /\ UNCHANGED <<jobVars, pureVars, env>>

\* uploadEligibilityFile: await sftp.end, then res.status(200)
SftpEnd(r) ==
  /\ Alive
  /\ req[r].pc = "end"
  /\ \E ok \in BOOLEAN :
       req' = [req EXCEPT ![r] =
                 IF ok THEN FileUpdated
                 ELSE Threw("deliver")]
  /\ UNCHANGED <<subscriptionsStore, disk, eligFile, remote, nEvents, committed>>
  /\ UNCHANGED <<jobVars, pureVars, env>>

\* the process is started again: requests in flight are gone and the ledger
\* is loaded from disk
Restart ==
  /\ subscriptionsStore' = loadSubscriptions(disk)
  /\ req' = [r \in Req |-> IdleReq]
  /\ job' = "idle"
  /\ UNCHANGED <<disk, eligFile, remote, nEvents, committed>>
  /\ UNCHANGED <<sdfFile, remoteSdf, pureVars, env>>

\* the daily setInterval callback: generateSubscriptionSDF, then
\* uploadSubscriptionSDF up to its first await
DailyJob ==
  /\ job \in {"idle", "logged"}
  /\ \E now \in Nows, w \in {"ok", "fail"} :
       LET sdf == generateSubscriptionSDF(subscriptionsStore, now)
       IN IF sdf.outcome = "throw" \/ w # "ok"
          THEN job' = "crashed" /\ UNCHANGED sdfFile
          ELSE job' = "connect" /\ sdfFile' = WriteLines(sdf.lines, sdfFile, w)
  /\ UNCHANGED <<handlerVars, remoteSdf, pureVars, env>>

\* uploadSubscriptionSDF: await sftp.connect; a failure is caught and logged
\* ("logged"), and the job is over until the next day
SdfConnect ==
  /\ job = "connect"
  /\ \E ok \in BOOLEAN : job' = IF ok THEN "put" ELSE "logged"
  /\ UNCHANGED <<handlerVars, sdfFile, remoteSdf, pureVars, env>>

\* uploadSubscriptionSDF: await sftp.put, which sends the local file as it is now
SdfPut ==
  /\ job = "put"
  /\ \E ok \in BOOLEAN :
       /\ job' = IF ok THEN "end" ELSE "logged"
       /\ remoteSdf' = IF ok THEN sdfFile ELSE remoteSdf
  /\ UNCHANGED <<handlerVars, sdfFile, pureVars, env>>

\* uploadSubscriptionSDF: await sftp.end; a failure is caught and logged
SdfEnd ==
  /\ job = "end"
  /\ \E ok \in BOOLEAN : job' = IF ok THEN "idle" ELSE "logged"
  /\ UNCHANGED <<handlerVars, sdfFile, remoteSdf, pureVars, env>>

Next ==
  \/ \E r \in Req : Receive(r)
  \/ \E r \in Req : RandomReturn(r)
  \/ \E r \in Req : LookupReturn(r)
  \/ \E r \in Req : SftpConnect(r)
  \/ \E r \in Req : SftpPut(r)
  \/ \E r \in Req : SftpEnd(r)
  \/ Restart

Spec == Init /\ [][Next]_vars

\* the handler, one request at a time, together with the daily job
NextDaily ==
  \/ Receive("r1")
  \/ RandomReturn("r1")
  \/ LookupReturn("r1")
  \/ SftpConnect("r1")
  \/ SftpPut("r1")
  \/ SftpEnd("r1")
  \/ Restart
  \/ DailyJob
  \/ SdfConnect
  \/ SdfPut
  \/ SdfEnd

DailySpec == Init /\ [][NextDaily]_vars

\* ------------------------------------------- the functions on sample inputs

Years == {2024, 2025}

\* every calendar date of the sample years
Dates ==
  {d \in Years \X (1..12) \X (1..31) : d[3] <= DaysInMonth(d[1], d[2])}

\* contents of subscriptions.json
LedgerFiles ==
  {NoFile, CorruptFile, NullFile,
   saveSubscriptions(<<>>, NoFile, "ok"), saveSubscriptions(EarlierLedger, NoFile, "ok")}

\* ledgers an upsert is applied to
SampleStores == {<<>>, EarlierLedger}

\* the member of the /test-generate-file route
testMember ==
  [title |-> "Mr", firstName |-> "Test", lastName |-> "User", uniqueId |-> SENTINEL,
   sequenceNum |-> "00", address1 |-> "123 Test St", address2 |-> "",
   city |-> "Testville", state |-> "TS", zip |-> "12345", phone |-> "5551234567",
   dob |-> "1990-01-01", gender |-> "M", email |-> "test.user@example.com",
   effectiveDate |-> <<2025, 3, 18>>, groupCode |-> "TESTGRP",
   coverageType |-> "MEMBER"]

\* a member without the properties fs
WithoutFields(member, fs) == [f \in DOMAIN member \ fs |-> member[f]]

\* members a line is built for: a ledger record with every effectiveDate of
\* the sample years and with none, and the test member with and without one
SampleMembers ==
  LET record == SubscriptionRecord(Orders["o1"])
  IN {[record EXCEPT !.effectiveDate = d] : d \in Dates}
       \cup {WithoutFields(record, {"effectiveDate"}), testMember,
              WithoutFields(testMember, {"effectiveDate"})}

\* the object the earlier revision of updateSubscriptionRecord stored
EarlierRevisionRecord(orderDetails) ==
  LET billing == orderDetails.billingAddress
      subscriptionItem == FindSubscriptionItem(orderDetails.lineItems)
      paymentAmount == subscriptionItem.unitPricePaid
      subscriptionPlan == Plan(paymentAmount)
      paymentDate == PaymentDate(orderDetails)
  IN [customerEmail |-> orderDetails.customerEmail,
      lastPaymentDate |-> formatYYYYMMDD(paymentDate),
      paymentAmount |-> paymentAmount,
      subscriptionPlan |-> subscriptionPlan,
      nextDueDate |-> formatYYYYMMDD(computeNextDueDate(paymentDate, subscriptionPlan)),
      orderId |-> orderDetails.id,
      firstName |-> OrEmpty(billing.firstName),
      lastName |-> OrEmpty(billing.lastName),
      productName |-> subscriptionItem.productName]

\* a first name of 22 characters
LongFirstName == "Maximilian-Bartholomew"

\* ledgers the fixed-width file is generated from: empty; written by this
\* revision; written by the earlier revision; the same with a first name
\* longer than its column; written by the earlier revision and then updated
\* by this one
SampleLedgers ==
  LET b == EarlierRevisionRecord(Orders["o3"])
      a == EarlierRevisionRecord(Orders["o1"])
  IN {<<>>, EarlierLedger,
      <<[key |-> "b@x.com", value |-> b], [key |-> "a@x.com", value |-> a]>>,
      <<[key |-> "b@x.com", value |-> b],
        [key |-> "a@x.com", value |-> [a EXCEPT !.firstName = LongFirstName]]>>,
      <<[key |-> "b@x.com", value |-> b],
        [key |-> "a@x.com", value |-> SubscriptionRecord(Orders["o1"])]>>}

\* UTC dates at which the fixed-width file is generated
SdfNows == Nows \cup {<<2024, 2, 1>>}

\* values typed into the date-of-birth field: one that reads as M/D/YYYY and
\* two that do not
DobValues == {"1/10/1982", "not a date", "1982-01-10"}

ParsesAsMDY(value) == value = "1/10/1982"

\* order o4 with each of the date-of-birth values
DobOrders ==
  {[Orders["o4"] EXCEPT !.lineItems =
      <<Item("PAYWALL_PRODUCT", "159.00",
             <<[label |-> "Date of Birth", value |-> v]>>)>>] : v \in DobValues}

\* ledgers a cancellation is applied to: empty, the earlier run's, and the
\* earlier run's after a@x.com's later order o2 replaced the record of o1
CancelStores ==
  {<<>>, EarlierLedger, updateSubscriptionRecord(EarlierLedger, Orders["o2"]).store}

\* local times of day at which isActiveSubscription reads the clock
Hours == {0, 12, 23}

\* records whose activity is evaluated
SampleRecords == {SubscriptionRecord(Orders["o1"]), SubscriptionRecord(Orders["o2"])}

\* the due date of a record, the day before it and the day after it
DaysAround(record) ==
  LET due == << record.nextDueDate \div 10000, (record.nextDueDate \div 100) % 100,
                record.nextDueDate % 100 >>
  IN {PrevDay(due), due, NextDay(due)}

\* plan values computeNextDueDate is applied to
SamplePlans == {"Monthly", "Annual", "Weekly", ""}

\* a process in any zone, with or without CAREINGTON_GROUP_CODE set, that
\* has received no event
InitPure ==
  /\ env \in [TZ : TimeZones, CAREINGTON_GROUP_CODE : {GROUP_CODE, UNDEF}, TODAY : Todays]
  /\ job = "idle"
  /\ sdfFile = NoFile
  /\ remoteSdf = NoFile
  /\ call = "none"
  /\ input = <<>>
  /\ output = <<>>
  /\ disk = NoFile
  /\ subscriptionsStore = loadSubscriptions(disk)
  /\ eligFile = NoFile
  /\ remote = NoFile
  /\ req = [r \in Req |-> IdleReq]
  /\ nEvents = 0
  /\ committed = subscriptionsStore

\* toCareingtonEffectiveDate(dateString)
ApplyEffectiveDate ==
  /\ call = "none"
  /\ \E dateString \in Dates :
       /\ input' = dateString
       /\ output' = toCareingtonEffectiveDate(dateString, env.TZ)
  /\ call' = "toCareingtonEffectiveDate"
  /\ UNCHANGED <<handlerVars, jobVars, env>>

\* loadSubscriptions() over a ledger file
ApplyLoad ==
  /\ call = "none"
  /\ \E file \in LedgerFiles :
       /\ input' = file
       /\ output' = loadSubscriptions(file)
  /\ call' = "loadSubscriptions"
  /\ UNCHANGED <<handlerVars, jobVars, env>>

\* updateSubscriptionRecord(orderDetails) with its save, then loadSubscriptions()
ApplyUpsertLoad ==
  /\ call = "none"
  /\ \E store \in SampleStores, o \in OrderIds :
       LET m == updateSubscriptionRecord(store, Orders[o])
       IN /\ m.outcome = "stored"
          /\ input' = [store |-> m.store, orderId |-> o]
          /\ output' = loadSubscriptions(saveSubscriptions(m.store, NoFile, "ok"))
  /\ call' = "updateSubscriptionRecord"
  /\ UNCHANGED <<handlerVars, jobVars, env>>

\* buildMemberLine(member)
ApplyBuildMemberLine ==
  /\ call = "none"
  /\ \E member \in SampleMembers :
       /\ input' = member
       /\ output' = buildMemberLine(member)
  /\ call' = "buildMemberLine"
  /\ UNCHANGED <<handlerVars, jobVars, env>>

\* computeNextDueDate(lastPaymentDate, subscriptionPlan)
ApplyNextDueDate ==
  /\ call = "none"
  /\ \E lastPaymentDate \in Dates, subscriptionPlan \in SamplePlans :
       /\ input' = [lastPaymentDate |-> lastPaymentDate,
                    subscriptionPlan |-> subscriptionPlan]
       /\ output' = computeNextDueDate(lastPaymentDate, subscriptionPlan)
  /\ call' = "computeNextDueDate"
  /\ UNCHANGED <<handlerVars, jobVars, env>>

\* isActiveSubscription(subscriptionRecord), the clock reading hour o'clock of
\* the local calendar day
ApplyIsActive ==
  /\ call = "none"
  /\ \E subscriptionRecord \in SampleRecords, hour \in Hours :
       \E day \in DaysAround(subscriptionRecord) :
         /\ input' = [record |-> subscriptionRecord, day |-> day, hour |-> hour]
         /\ output' = isActiveSubscription(subscriptionRecord,
                                           UtcDate(day, hour, env.TZ))
  /\ call' = "isActiveSubscription"
  /\ UNCHANGED <<handlerVars, jobVars, env>>

\* generateSubscriptionSDF(subscriptions)
ApplyGenerateSDF ==
  /\ call = "none"
  /\ \E subscriptions \in SampleLedgers, now \in SdfNows :
       /\ input' = [subscriptions |-> subscriptions, now |-> now]
       /\ output' = generateSubscriptionSDF(subscriptions, now)
  /\ call' = "generateSubscriptionSDF"
  /\ UNCHANGED <<handlerVars, jobVars, env>>

\* the name generateEligibilityFile(members, parentGroupCode, isFull) gives
\* its file on the local calendar date today
ApplyFileName ==
  /\ call = "none"
  /\ \E today \in Dates, isFull \in BOOLEAN :
       /\ input' = [parentGroupCode |-> env.CAREINGTON_GROUP_CODE, today |-> today,
                    isFull |-> isFull]
       /\ output' = EligibilityFileName(env.CAREINGTON_GROUP_CODE, today, isFull)
  /\ call' = "generateEligibilityFile"
  /\ UNCHANGED <<handlerVars, jobVars, env>>

\* updateSubscriptionRecord(orderDetails) for an order with a date-of-birth value
ApplyUpdateWithDob ==
  /\ call = "none"
  /\ \E store \in SampleStores, orderDetails \in DobOrders :
       /\ input' = orderDetails
       /\ output' = updateSubscriptionRecord(store, orderDetails)
  /\ call' = "updateSubscriptionRecord: date of birth"
  /\ UNCHANGED <<handlerVars, jobVars, env>>

\* toCareingtonEffectiveDate applied to a date, and again to the date its
\* result is stored as ('YYYY-MM-DD')
ApplyEffectiveDateTwice ==
  /\ call = "none"
  /\ \E dateString \in Dates :
       LET once == toCareingtonEffectiveDate(dateString, env.TZ)
       IN /\ input' = dateString
          /\ output' = [once |-> once,
                        twice |-> toCareingtonEffectiveDate(once, env.TZ)]
  /\ call' = "toCareingtonEffectiveDate twice"
  /\ UNCHANGED <<handlerVars, jobVars, env>>

\* the handler on an order.update / CANCELED event for an order, from the
\* lookup's return on, every write succeeding
ApplyCancel ==
  /\ call = "none"
  /\ \E store \in CancelStores, o \in OrderIds :
       /\ input' = [store |-> store, orderId |-> o]
       /\ output' = HandleOrder(store, saveSubscriptions(store, NoFile, "ok"), NoFile,
                                Classify("order.update", "CANCELED"), Orders[o],
                                "ok", "ok")
  /\ call' = "removeSubscriptionRecord"
  /\ UNCHANGED <<handlerVars, jobVars, env>>

NextPure ==
  \/ ApplyEffectiveDate
  \/ ApplyLoad
  \/ ApplyUpsertLoad
  \/ ApplyBuildMemberLine
  \/ ApplyNextDueDate
  \/ ApplyIsActive
  \/ ApplyGenerateSDF
  \/ ApplyFileName
  \/ ApplyUpdateWithDob
  \/ ApplyEffectiveDateTwice
  \/ ApplyCancel

PureSpec == InitPure /\ [][NextPure]_vars

TypeOK ==
  /\ \A r \in Req : req[r].pc \in {"idle", "random", "lookup", "connect", "put", "end", "done", "threw"}
  /\ disk.kind \in {"missing", "corrupt", "json"}
  /\ nEvents \in 0..MaxEvents
  /\ job \in {"idle", "connect", "put", "end", "logged", "crashed"}
  /\ env.TZ \in TimeZones

\* ------------------------------------------------------------ properties

\* the step in which request r's order lookup returns and the handler runs on
Looked(r) == req[r].pc = "lookup" /\ req'[r].pc \in {"connect", "done", "threw"}

\* ... and the lookup returned the order
Found(r) ==
  Looked(r) /\ req[r].orderId \in OrderIds /\ req'[r].body # "Order not found"

TheOrder(r) == Orders[req[r].orderId]

NoDuplicateKeys(store) ==
  \A i, j \in 1..Len(store) : store[i].key = store[j].key => i = j

ValueUnder(store, k) == store[IndexOf(store, k)].value

RecognizedPlan(o) ==
  /\ HasSubscriptionItem(o.lineItems)
  /\ FindSubscriptionItem(o.lineItems).unitPricePaid \in {"19.99", "159.00"}

InFlight(r) == req[r].pc \in {"random", "lookup", "connect", "put", "end"}

FileOf(store) ==
  [kind |-> "text", text |-> generateEligibilityFile(ObjectValues(store)),
   name |-> HandlerFileName]

HasLineFor(file, email) ==
  \E i \in 1..Len(file.text) : EmailOfLine(file.text[i]) = email

\* C1: the ledger never holds two records under one email, and once a
\* create/fulfill event whose order has a recognized plan has been handled,
\* the record under the order's customer email is the one derived from that
\* order.
C1_LastWriteWins ==
  [][ /\ NoDuplicateKeys(subscriptionsStore')
      /\ \A r \in Req :
           (Found(r) /\ req[r].route = "upsert" /\ RecognizedPlan(TheOrder(r)))
           => /\ TheOrder(r).customerEmail \in Keys(subscriptionsStore')
              /\ ValueUnder(subscriptionsStore', TheOrder(r).customerEmail)
                   = SubscriptionRecord(TheOrder(r)) ]_vars

\* C2: handling a create/fulfill event whose order has a subscription item
\* with a recognized price leaves a record under the customer's email in the
\* ledger and, unless a file write fails, goes on to regenerate the
\* eligibility file from that ledger and to hand it to the transport.
C2_UpsertThenExtract ==
  [][ \A r \in Req :
        (Found(r) /\ req[r].route = "upsert" /\ RecognizedPlan(TheOrder(r)))
        => /\ TheOrder(r).customerEmail \in Keys(subscriptionsStore')
           /\ req'[r].fail \notin {"persist", "encode"}
                => /\ req'[r].pc = "connect"
                   /\ eligFile' = FileOf(subscriptionsStore') ]_vars

\* C3: a cancellation event for an email in the ledger removes that email's
\* record, leaves every other record as it was and in place, and the
\* eligibility file the event generates has no line for that email.
C3_CancelRemovesExactlyOne ==
  [][ \A r \in Req :
        (Found(r) /\ req[r].route = "cancel"
           /\ TheOrder(r).customerEmail \in Keys(subscriptionsStore))
        => LET e == TheOrder(r).customerEmail
           IN /\ Keys(subscriptionsStore') = Keys(subscriptionsStore) \ {e}
              /\ Len(subscriptionsStore') = Len(subscriptionsStore) - 1
              /\ \A k \in Keys(subscriptionsStore') :
                   ValueUnder(subscriptionsStore', k) = ValueUnder(subscriptionsStore, k)
              /\ req'[r].pc = "connect"
                   => /\ eligFile'.kind = "text"
                      /\ Len(eligFile'.text) = Len(subscriptionsStore')
                      /\ ~HasLineFor(eligFile', e) ]_vars

\* C3 witness: a cancellation has removed a record, another record is still in
\* the ledger, and the file generated for it is on its way to the transport.
C3_Witness ==
  \E r \in Req :
    /\ req[r].pc = "connect" /\ req[r].route = "cancel" /\ req[r].op = "stored"
    /\ Len(subscriptionsStore) = 1
    /\ eligFile = FileOf(subscriptionsStore)

\* C4: an event whose topic/status pair is not create, update+FULFILLED or
\* update+CANCELED changes neither the ledger nor the ledger file, and no
\* eligibility file is written or sent for it.
C4_OtherEventsIgnored ==
  [][ \A r \in Req :
        (Looked(r) /\ req[r].other)
        => /\ UNCHANGED <<subscriptionsStore, disk, eligFile, remote>>
           /\ req'[r].pc = "done" ]_vars

\* C4 witness: such an event has been answered "No action" over a ledger that
\* holds records.
C4_Witness ==
  \E r \in Req :
    /\ req[r] = NoAction
    /\ Len(subscriptionsStore) = 2
    /\ eligFile = NoFile

\* C5: at most one webhook request is being handled at any time.
C5_OneAtATime ==
  Cardinality({r \in Req : InFlight(r)}) <= 1

\* C6: the handling of an event that carried the sentinel order id never
\* changes the ledger.
C6_SentinelLeavesLedger ==
  [][ \A r \in Req :
        (Looked(r) /\ req[r].sentinel) => subscriptionsStore' = subscriptionsStore ]_vars

\* C7: no exception leaves the handler, and a request whose handling failed
\* is answered with a failure status.
C7_FailuresAnswered ==
  \A r \in Req :
    /\ req[r].pc # "threw"
    /\ (req[r].pc = "done" /\ req[r].fail # "none") => req[r].status >= 400

\* C8: the ledger file always deserializes to the ledger left by the last
\* mutation whose save returned, which is what a restart loads.
C8_Durable ==
  loadSubscriptions(disk) = committed

\* C9: when the ledger file cannot be written, the request is answered with
\* a failure status and the ledger in memory is the persisted one.
C9_FailedSaveReported ==
  [][ \A r \in Req :
        (Looked(r) /\ req'[r].fail = "persist")
        => /\ req'[r].pc = "done" /\ req'[r].status >= 400
           /\ subscriptionsStore' = loadSubscriptions(disk') ]_vars

\* C10: when the order lookup returns nothing, the request is answered 404
\* and the ledger, the ledger file, the eligibility file and the transport
\* are untouched.
C10_LookupFailureAborts ==
  [][ \A r \in Req :
        (Looked(r) /\ (req[r].orderId \notin OrderIds \/ req'[r].body = "Order not found"))
        => /\ req'[r].pc = "done" /\ req'[r].status = 404
           /\ UNCHANGED <<subscriptionsStore, disk, eligFile, remote>> ]_vars

\* C10 witness: a request has been answered "Order not found" over a ledger
\* that holds records.
C10_Witness ==
  \E r \in Req :
    /\ req[r] = OrderNotFound
    /\ Len(subscriptionsStore) = 2

\* C11: a failed delivery of an extract file, eligibility or fixed-width,
\* is caught and logged: no exception leaves the upload, and the ledger in
\* memory and on disk stay as the mutation that produced the file left them.
C11_DeliveryFailureCaught ==
  [][ /\ \A r \in Req :
           (req[r].pc \in {"connect", "put", "end"} /\ req'[r].fail = "deliver")
           => /\ req'[r].pc # "threw"
              /\ UNCHANGED <<subscriptionsStore, disk>>
      /\ (job \in {"connect", "put", "end"} /\ job' \in {"logged", "crashed"})
           => /\ job' = "logged"
              /\ UNCHANGED <<subscriptionsStore, disk>> ]_vars

\* C12: a create/fulfill event whose order has no subscription item, or a
\* subscription item with an unrecognized price, leaves the ledger in memory
\* and on disk unchanged, and its request ends answered with status 200.
C12_SkipIsSuccessNoOp ==
  [][ \A r \in Req :
        /\ (Found(r) /\ req[r].route = "upsert" /\ ~RecognizedPlan(TheOrder(r)))
             => /\ UNCHANGED <<subscriptionsStore, disk>>
                /\ req'[r].pc # "threw"
        /\ (req[r].route = "upsert" /\ req[r].op = "skip"
               /\ req'[r] # req[r] /\ req'[r].pc # "idle")
             => \/ req'[r].pc \in {"put", "end"}
                \/ req'[r].pc = "done" /\ req'[r].status = 200 ]_vars

\* C13: every record in the ledger has paymentAmount '19.99' with
\* subscriptionPlan Monthly, or '159.00' with Annual; event handling stores
\* no record for any other amount.
C13_RecognizedAmountOnly ==
  \A i \in 1..Len(subscriptionsStore) :
    LET record == subscriptionsStore[i].value
    IN \/ record.paymentAmount = "19.99" /\ record.subscriptionPlan = "Monthly"
       \/ record.paymentAmount = "159.00" /\ record.subscriptionPlan = "Annual"

\* C13 witness: an event has stored an Annual record, and a create/fulfill
\* event whose order was skipped has got as far as the upload.
C13_Witness ==
  /\ nEvents = 2
  /\ \E i \in 1..Len(subscriptionsStore) :
       subscriptionsStore[i].value.subscriptionPlan = "Annual"
  /\ \E r \in Req : req[r].pc = "connect" /\ req[r].route = "upsert" /\ req[r].op = "skip"

\* C14: handling a create/fulfill event whose order already has its record
\* in the ledger (the event is a replay) leaves the ledger as it was: one
\* record under that email, every field as after the first application.
C14_ReplayIdempotent ==
  [][ \A r \in Req :
        (Found(r) /\ req[r].route = "upsert" /\ RecognizedPlan(TheOrder(r))
           /\ TheOrder(r).customerEmail \in Keys(subscriptionsStore)
           /\ ValueUnder(subscriptionsStore, TheOrder(r).customerEmail)
                = SubscriptionRecord(TheOrder(r)))
        => /\ subscriptionsStore' = subscriptionsStore
           /\ Cardinality({i \in 1..Len(subscriptionsStore') :
                             subscriptionsStore'[i].key = TheOrder(r).customerEmail}) = 1 ]_vars

\* C14 witness: the first event of a run was a create/fulfill event that
\* stored a record and left the ledger equal to the one the earlier run had
\* written, so it replayed the order of one of that ledger's records.
C14_Witness ==
  /\ nEvents = 1
  /\ subscriptionsStore = EarlierLedger
  /\ \E r \in Req :
       req[r].pc = "connect" /\ req[r].route = "upsert" /\ req[r].op = "stored"

\* the step is request r handling a cancellation event for email e
Cancels(r, e) ==
  Found(r) /\ req[r].route = "cancel" /\ TheOrder(r).customerEmail = e

\* the step is request r handling a create/fulfill event for email e
Upserts(r, e) ==
  Found(r) /\ req[r].route = "upsert" /\ TheOrder(r).customerEmail = e

\* C15: no step of the daily job changes the ledger in memory or on disk,
\* whatever the due dates of its records; a record leaves the ledger, in
\* memory or on disk, only in the handling of a cancellation event for its
\* email, and changes only in the handling of a create/fulfill event for it.
C15_OnlyCancelRemoves ==
  [][ /\ (job' # job /\ req' = req) => UNCHANGED <<subscriptionsStore, disk>>
      /\ \A e \in Keys(subscriptionsStore) :
           /\ e \notin Keys(subscriptionsStore') => \E r \in Req : Cancels(r, e)
           /\ (e \in Keys(subscriptionsStore')
                 /\ ValueUnder(subscriptionsStore', e) # ValueUnder(subscriptionsStore, e))
                => \E r \in Req : Upserts(r, e)
      /\ \A e \in Keys(loadSubscriptions(disk)) :
           e \notin Keys(loadSubscriptions(disk')) => \E r \in Req : Cancels(r, e) ]_vars

\* C15, the steps of the daily job and of the eligibility upload alone
C15_JobLeavesLedger ==
  [][ (job' # job /\ req' = req) => UNCHANGED <<subscriptionsStore, disk>> ]_vars

\* C16: a cancellation event for an email that is not in the ledger leaves
\* the ledger in memory and the ledger file as they are, and the handler
\* goes on to regenerate the eligibility file as for any cancellation.
C16_AbsentCancelNoOp ==
  [][ \A r \in Req :
        (Found(r) /\ req[r].route = "cancel"
           /\ TheOrder(r).customerEmail \notin Keys(subscriptionsStore))
        => /\ UNCHANGED <<subscriptionsStore, disk>>
           /\ req'[r].pc = "connect" \/ req'[r].fail = "encode" ]_vars

\* C16 witness: a cancellation that found no record has got as far as the
\* upload, over a ledger that holds another email's record.
C16_Witness ==
  \E r \in Req :
    /\ req[r].pc = "connect" /\ req[r].route = "cancel" /\ req[r].op = "skip"
    /\ Len(subscriptionsStore) = 1
    /\ eligFile = FileOf(subscriptionsStore)

\* C17: loadSubscriptions over a ledger file that is missing or is not a
\* JSON object mapping email to record yields the empty mapping.
C17_LoadFallsBackToEmpty ==
  (call = "loadSubscriptions" /\ input.kind # "json") => output = <<>>

\* the record that updateSubscriptionRecord stored in the PureSpec call
StoredRecord == ValueUnder(input.store, Orders[input.orderId].customerEmail)

\* the record that loadSubscriptions returned under the same email
LoadedRecord == ValueUnder(output, Orders[input.orderId].customerEmail)

C19_ExtractSeesSettledLedger ==
  [][ /\ \A r \in Req :
           (Looked(r) /\ req'[r].pc = "connect")
           => /\ eligFile' = FileOf(subscriptionsStore')
              /\ loadSubscriptions(disk') = subscriptionsStore'
      /\ (job \in {"idle", "logged"} /\ job' = "connect")
           => /\ sdfFile'.kind = "text"
              /\ loadSubscriptions(disk') = subscriptionsStore' ]_vars

\* C19, the snapshot alone: the eligibility file written by a request is the
\* extract of the ledger as that request's mutation left it
C19_SnapshotAfterMutation ==
  [][ \A r \in Req :
        (Looked(r) /\ req'[r].pc = "connect")
        => eligFile' = FileOf(subscriptionsStore') ]_vars

\* C20: toCareingtonEffectiveDate maps a date with day <= 15 to the first
\* of its month, and a date with day > 15 to the first of the following
\* month, which for December is January of the following year.
C20_EffectiveDateRule ==
  call = "toCareingtonEffectiveDate"
  => output = IF input[3] <= 15 THEN <<input[1], input[2], 1>>
              ELSE IF input[2] = 12 THEN <<input[1] + 1, 1, 1>>
              ELSE <<input[1], input[2] + 1, 1>>

\* C20 in a process whose zone is at or east of UTC
C20_EffectiveDateRuleEastOfUTC ==
  (call = "toCareingtonEffectiveDate" /\ env.TZ >= 0)
  => output = IF input[3] <= 15 THEN <<input[1], input[2], 1>>
              ELSE IF input[2] = 12 THEN <<input[1] + 1, 1, 1>>
              ELSE <<input[1], input[2] + 1, 1>>

\* C21: every line of an eligibility extract carries an effective date whose
\* day is 01, whatever effectiveDate the member holds and also when it holds
\* none, in every zone.
C21_EffectiveDayIsFirst ==
  call = "buildMemberLine" => (output[20] \div 10000) % 100 = 1

\* a member without an effectiveDate, west of UTC, on 16 December: 01012026
C21_Witness ==
  /\ call = "buildMemberLine"
  /\ "effectiveDate" \notin DOMAIN input
  /\ env.TZ < 0
  /\ env.TODAY = <<2025, 12, 16>>
  /\ output[20] = 1012026

C22_NextDueDateByPlan ==
  call = "computeNextDueDate" =>
    LET d == input.lastPaymentDate
    IN /\ input.subscriptionPlan = "Monthly" =>
            output[1] * 12 + output[2] = d[1] * 12 + d[2] + 1
       /\ input.subscriptionPlan = "Annual" =>
            output[1] = d[1] + 1 /\ output[2] = d[2]
       /\ input.subscriptionPlan \notin {"Monthly", "Annual"} => output = d

\* 20 December 2025 on the Monthly plan is due 20 January 2026
C22_Witness ==
  /\ call = "computeNextDueDate"
  /\ input = [lastPaymentDate |-> <<2025, 12, 20>>, subscriptionPlan |-> "Monthly"]
  /\ output = <<2026, 1, 20>>

\* C23: the advanced date keeps the day of the month when the target month
\* has it and is the last day of the target month otherwise; it is a date of
\* the calendar (31 January + 1 month is the last day of February).
C23_DayKeptOrClamped ==
  call = "computeNextDueDate" /\ input.subscriptionPlan \in {"Monthly", "Annual"} =>
    LET d == input.lastPaymentDate
        last == DaysInMonth(output[1], output[2])
    IN /\ output[2] \in 1..12
       /\ output[3] \in 1..last
       /\ output[3] = (IF d[3] <= last THEN d[3] ELSE last)
       /\ (d = <<2025, 1, 31>> /\ input.subscriptionPlan = "Monthly")
            => output = <<2025, 2, 28>>

\* 29 February 2024 on the Annual plan is due 28 February 2025
C23_Witness ==
  /\ call = "computeNextDueDate"
  /\ input = [lastPaymentDate |-> <<2024, 2, 29>>, subscriptionPlan |-> "Annual"]
  /\ output = <<2025, 2, 28>>

\* C24: every record of the ledger has a nextDueDate that is a calendar date,
\* its lastPaymentDate advanced by one month (plan Monthly) or one year (plan
\* Annual), the day clamped to the end of the target month.
C24_NextDueIsOneIntervalOn ==
  \A i \in 1..Len(subscriptionsStore) :
    LET record == subscriptionsStore[i].value
        y == record.lastPaymentDate \div 10000
        m == (record.lastPaymentDate \div 100) % 100
        d == record.lastPaymentDate % 100
        ty == IF record.subscriptionPlan = "Annual" \/ m = 12 THEN y + 1 ELSE y
        tm == IF record.subscriptionPlan = "Annual" THEN m
              ELSE IF m = 12 THEN 1 ELSE m + 1
        td == IF d <= DaysInMonth(ty, tm) THEN d ELSE DaysInMonth(ty, tm)
    IN /\ record.subscriptionPlan \in {"Monthly", "Annual"}
       /\ record.nextDueDate = ty * 10000 + tm * 100 + td

\* an event stored the Annual record of 20 December 2025, due 20 December
\* 2026, next to the Monthly record of 31 January 2024, due 29 February 2024
C24_Witness ==
  /\ nEvents > 0
  /\ \E i, j \in 1..Len(subscriptionsStore) :
       /\ subscriptionsStore[i].value.subscriptionPlan = "Annual"
       /\ subscriptionsStore[i].value.lastPaymentDate = 20251220
       /\ subscriptionsStore[i].value.nextDueDate = 20261220
       /\ subscriptionsStore[j].value.subscriptionPlan = "Monthly"
       /\ subscriptionsStore[j].value.lastPaymentDate = 20240131
       /\ subscriptionsStore[j].value.nextDueDate = 20240229

\* C25: the dates of every record of the ledger are derived from its order's
\* fulfilledOn when the order has one and from its createdOn only when it
\* has none: lastPaymentDate is that date, nextDueDate that date advanced by
\* the plan's interval, effectiveDate the first of the month that date falls
\* to by the mid-month rule.
C25_FulfilledOnBeforeCreatedOn ==
  \A i \in 1..Len(subscriptionsStore) :
    LET record == subscriptionsStore[i].value
        order == Orders[record.orderId]
        paid == IF order.fulfilledOn # <<>> THEN order.fulfilledOn ELSE order.createdOn
    IN /\ record.lastPaymentDate = paid[1] * 10000 + paid[2] * 100 + paid[3]
       /\ record.nextDueDate
            = formatYYYYMMDD(computeNextDueDate(paid, record.subscriptionPlan))
       /\ record.effectiveDate
            = (IF paid[3] <= 15 THEN <<paid[1], paid[2], 1>>
               ELSE IF paid[2] = 12 THEN <<paid[1] + 1, 1, 1>>
               ELSE <<paid[1], paid[2] + 1, 1>>)

\* the first event of a run on an empty ledger has stored the record of order
\* o1, created on 8 January 2025 and fulfilled on the 10th: paid on the 10th,
\* due 10 February
C25_Witness ==
  \E r \in Req :
    /\ req[r].pc = "connect" /\ req[r].route = "upsert" /\ req[r].op = "stored"
    /\ nEvents = 1
    /\ Len(subscriptionsStore) = 1
    /\ "a@x.com" \in Keys(subscriptionsStore)
    /\ ValueUnder(subscriptionsStore, "a@x.com").orderId = "o1"
    /\ ValueUnder(subscriptionsStore, "a@x.com").lastPaymentDate = 20250110
    /\ ValueUnder(subscriptionsStore, "a@x.com").nextDueDate = 20250210
    /\ ValueUnder(subscriptionsStore, "a@x.com").effectiveDate = <<2025, 1, 1>>

\* C26: a record is active exactly when the calendar day of now is before its
\* nextDueDate, at every time of day: not on the due date, and on the day
\* before it.
C26_ActiveUntilDueDay ==
  call = "isActiveSubscription" =>
    (output <=> formatYYYYMMDD(input.day) < input.record.nextDueDate)

\* C26, in a process whose zone is UTC: there the day of now is the UTC day
\* that the comparison with the due date's midnight UTC decides on
C26_ActiveUntilDueDayInUTC ==
  call = "isActiveSubscription" /\ env.TZ = 0 =>
    (output <=> formatYYYYMMDD(input.day) < input.record.nextDueDate)

\* the lines of the generated file that carry the order id of the record
LinesOf(lines, record) ==
  {k \in 1..Len(lines) : lines[k][8] = padEnd(record.orderId, 24)}

\* C27: the fixed-width extract is generated and holds exactly one line for
\* each record of the ledger that is active at generation time and no line
\* for a lapsed one.
C27_OneLinePerActiveRecord ==
  call = "generateSubscriptionSDF" =>
    /\ output.outcome = "ok"
    /\ \A i \in 1..Len(input.subscriptions) :
         LET record == input.subscriptions[i].value
         IN Cardinality(LinesOf(output.lines, record))
              = (IF isActiveSubscription(record, input.now) THEN 1 ELSE 0)

\* C27 for a ledger whose records all hold the properties the generator
\* reads (those the earlier revision stored)
C27_OneLinePerActiveRenderable ==
  (call = "generateSubscriptionSDF"
     /\ \A i \in 1..Len(input.subscriptions) : CanRender(input.subscriptions[i].value))
  => /\ output.outcome = "ok"
     /\ \A i \in 1..Len(input.subscriptions) :
          LET record == input.subscriptions[i].value
          IN Cardinality(LinesOf(output.lines, record))
               = (IF isActiveSubscription(record, input.now) THEN 1 ELSE 0)

\* C28 as stated: every line starts with the email in exactly 50 characters
\* followed by the plan in 10, and is 158 characters long.
C28_LineIs158Long ==
  call = "generateSubscriptionSDF" =>
    \A k \in 1..Len(output.lines) :
      /\ Len(output.lines[k][1]) = 50
      /\ Len(output.lines[k][2]) = 10
      /\ LineLength(output.lines[k]) = 158

\* C28, amended: every line starts with the email, padded to 50 characters,
\* followed immediately by the plan, padded to 10; a line whose values all
\* fit their columns is 148 characters long, the sum of the column widths,
\* and a value longer than its column is laid down whole, the line being
\* longer by the excess.
C28_LineIs148PlusExcess ==
  call = "generateSubscriptionSDF" =>
    LET active == ActiveRecords(input.subscriptions, input.now)
        Longer(a, b) == IF a > b THEN a ELSE b
    IN \A k \in 1..Len(output.lines) :
         LET line == output.lines[k]
             record == active[k]
             excess == Longer(Len(record.customerEmail) - 50, 0)
                         + Longer(Len(record.subscriptionPlan) - 10, 0)
                         + Longer(Len(record.paymentAmount) - 8, 0)
                         + Longer(Len(record.firstName) - 20, 0)
                         + Longer(Len(record.lastName) - 20, 0)
                         + Longer(Len(record.orderId) - 24, 0)
         IN /\ Len(line[1]) = Longer(50, Len(record.customerEmail))
            /\ Len(line[2]) = Longer(10, Len(record.subscriptionPlan))
            /\ LineLength(line) = 148 + excess
            /\ excess = 0 => \A c \in 1..8 : Len(line[c]) = Widths[c]

\* the line of a@x.com on the Monthly plan: the email and 43 spaces, the plan
\* and 3 spaces, 148 characters in all
C28_Witness ==
  /\ call = "generateSubscriptionSDF"
  /\ \E k \in 1..Len(output.lines) :
       /\ output.lines[k][1] = "a@x.com" \o Spaces(43)
       /\ output.lines[k][2] = "Monthly" \o Spaces(3)
       /\ output.lines[k][5] = Spaces(3) \o "19.99"
       /\ LineLength(output.lines[k]) = 148

\* C29: generating the fixed-width file never throws; every line has its
\* fields cut or padded to the column widths, whatever the record holds, and
\* every active record has its line.
C29_TruncatesAndNeverThrows ==
  call = "generateSubscriptionSDF" =>
    /\ output.outcome = "ok"
    /\ Len(output.lines) = Len(ActiveRecords(input.subscriptions, input.now))
    /\ \A k \in 1..Len(output.lines) :
         \A c \in 1..8 : Len(output.lines[k][c]) = Widths[c]

\* C31: the eligibility file is named with the parent group code, the month,
\* the day and the last two digits of the year of the generation date,
\* '_full' or '_delta', and '.txt'.
C31_FileNameMMDDYY ==
  call = "generateEligibilityFile" =>
    /\ output.group = input.parentGroupCode
    /\ output.mmddyy \div 10000 = input.today[2]
    /\ (output.mmddyy \div 100) % 100 = input.today[3]
    /\ output.mmddyy % 100 = input.today[1] % 100
    /\ output.suffix = (IF input.isFull THEN "full" ELSE "delta")
    /\ output.ext = ".txt"

\* C31 but for the year: group code, month, day, suffix and extension are as
\* the claim says, and the two digits after the day are the century's
C31_FileNameMMDDCC ==
  call = "generateEligibilityFile" =>
    /\ output.group = input.parentGroupCode
    /\ output.mmddyy \div 10000 = input.today[2]
    /\ (output.mmddyy \div 100) % 100 = input.today[3]
    /\ output.mmddyy % 100 = input.today[1] \div 100
    /\ output.suffix = (IF input.isFull THEN "full" ELSE "delta")
    /\ output.ext = ".txt"

\* C32: every eligibility file a webhook-driven update produces is named with
\* the suffix 'full' and has exactly one line for each record the ledger
\* holds when it is generated, whether or not the record has lapsed.
C32_HandlerWritesFullExtract ==
  [][ \A r \in Req :
        (Looked(r) /\ req'[r].pc = "connect")
        => /\ eligFile'.kind = "text"
           /\ eligFile'.name.suffix = "full"
           /\ Len(eligFile'.text) = Len(subscriptionsStore')
           /\ \A i \in 1..Len(subscriptionsStore') :
                Cardinality({k \in 1..Len(eligFile'.text) :
                               EmailOfLine(eligFile'.text[k])
                                 = subscriptionsStore'[i].key}) = 1 ]_vars

\* a handler has written a file of two lines on 15 March 2025, one of them
\* for b@x.com, whose record fell due on 29 February 2024
C32_Witness ==
  /\ \E r \in Req : req[r].pc = "connect"
  /\ eligFile.kind = "text"
  /\ eligFile.name.suffix = "full"
  /\ Len(eligFile.text) = 2
  /\ HasLineFor(eligFile, "b@x.com")
  /\ "b@x.com" \in Keys(subscriptionsStore)
  /\ ValueUnder(subscriptionsStore, "b@x.com").nextDueDate = 20240229
  /\ formatYYYYMMDD(env.TODAY) = 20250315

\* C33: when the date-of-birth field of the subscription item holds a value
\* that does not read as M/D/YYYY, updateSubscriptionRecord does not throw
\* and stores the record with an empty dateOfBirth.
C33_UnparsableDobLeftEmpty ==
  (call = "updateSubscriptionRecord: date of birth"
     /\ ~ParsesAsMDY(FindSubscriptionItem(input.lineItems).customizations[1].value))
  => /\ output.outcome = "stored"
     /\ input.customerEmail \in Keys(output.store)
     /\ ValueUnder(output.store, input.customerEmail).orderId = input.id
     /\ ValueUnder(output.store, input.customerEmail).dateOfBirth = ""

\* C39: the effective-date rule applied to its own result returns that
\* result, and applied to a date that is already the first of a month it
\* returns that date, in every zone.
C39_EffectiveDateIdempotent ==
  call = "toCareingtonEffectiveDate twice" =>
    /\ output.twice = output.once
    /\ input[3] = 1 => output.once = input

\* west of UTC, 1 February 2025 is read as 31 January and still comes out as
\* 1 February, once and twice
C39_Witness ==
  /\ call = "toCareingtonEffectiveDate twice"
  /\ env.TZ < 0
  /\ input = <<2025, 2, 1>>
  /\ output = [once |-> <<2025, 2, 1>>, twice |-> <<2025, 2, 1>>]

\* C40: a request without data or data.orderId is answered 400 and goes no
\* further, a sentinel request for which no random order is found is answered
\* 404 and goes no further; either way no order is looked up by id, and the
\* ledger, the ledger file, the eligibility file and the transport are left
\* as they were.
C40_EarlyExits ==
  [][ \A r \in Req :
        /\ (nEvents' = nEvents + 1 /\ FirstFree(r))
           => /\ req'[r].pc \in {"done", "random", "lookup"}
              /\ req'[r].pc \in {"random", "lookup"}
                   => req'[r].orderId \notin {NODATA, UNDEF}
              /\ req'[r].pc = "done"
                   => /\ req'[r].status = 400
                      /\ req'[r].body = "Invalid webhook"
                      /\ UNCHANGED <<subscriptionsStore, disk, eligFile, remote>>
        /\ (req[r].pc = "random" /\ req'[r].pc \notin {"random", "idle"})
           => /\ req'[r].pc \in {"done", "lookup"}
              /\ req'[r].pc = "lookup" => req'[r].orderId \in OrderIds
              /\ req'[r].pc = "done"
                   => /\ req'[r].status = 404
                      /\ req'[r].body = "No orders for test"
                      /\ UNCHANGED <<subscriptionsStore, disk, eligFile, remote>> ]_vars

\* one request was answered 400 and one sentinel request 404, and the ledger
\* of the earlier run is in memory and on disk, no file generated
C40_Witness ==
  /\ \E r, q \in Req : req[r] = InvalidWebhook /\ req[q] = NoOrdersForTest
  /\ subscriptionsStore = EarlierLedger
  /\ loadSubscriptions(disk) = EarlierLedger
  /\ eligFile = NoFile

\* C38: a cancellation event for an order of customer e removes the record
\* stored under e, in memory and in the ledger file, whichever order that
\* record came from, and leaves every other record.
C38_RemovalKeyedByEmail ==
  call = "removeSubscriptionRecord" =>
    LET e == Orders[input.orderId].customerEmail
    IN /\ e \notin Keys(output.store)
       /\ e \notin Keys(loadSubscriptions(output.disk))
       /\ Keys(output.store) = Keys(input.store) \ {e}
       /\ \A k \in Keys(output.store) :
            ValueUnder(output.store, k) = ValueUnder(input.store, k)

\* the record under a@x.com is that of the later order o2, and the
\* cancellation of the earlier order o1 has removed it
C38_Witness ==
  /\ call = "removeSubscriptionRecord"
  /\ input.orderId = "o1"
  /\ "a@x.com" \in Keys(input.store)
  /\ ValueUnder(input.store, "a@x.com").orderId = "o2"
  /\ "a@x.com" \notin Keys(output.store)
  /\ "b@x.com" \in Keys(output.store)

\* C37: every record that updateSubscriptionRecord stores holds, as values
\* the fixed-width generator can pad, customerEmail, subscriptionPlan,
\* paymentAmount, firstName, lastName and orderId, so that generating the
\* fixed-width file from the ledger does not throw whenever the job runs.
C37_StoredRecordsRenderable ==
  [][ \A r \in Req :
        (Found(r) /\ req[r].route = "upsert" /\ req'[r].op = "stored")
        => /\ CanRender(ValueUnder(subscriptionsStore', TheOrder(r).customerEmail))
           /\ \A now \in Nows :
                generateSubscriptionSDF(subscriptionsStore', now).outcome = "ok" ]_vars

\* request r has called sftp.connect and its sftp.end has not returned
Delivering(r) == req[r].pc \in {"connect", "put", "end"}

\* C36: the shared SFTP client is used by one delivery at a time: while one
\* webhook handler is between its call of connect and the return of its end,
\* no other handler is.
C36_OneDeliveryAtATime ==
  Cardinality({r \in Req : Delivering(r)}) <= 1

\* C36 for the daily job: it is not between its connect and its end while a
\* webhook handler is
C36_JobDoesNotShareClient ==
  ~(job \in {"connect", "put", "end"} /\ Delivering("r1"))

\* C34: when a handler mutates the ledger for email e while another handler,
\* whose own mutation is done and saved, is still delivering, the record of
\* every other email stays in memory as it was, the handler's own mutation
\* is in memory, and the ledger file holds the whole ledger, both mutations
\* included; the deliveries that follow change neither, so both are there
\* when both handlers have completed.
C34_NoLostUpdate ==
  [][ \A r \in Req :
        /\ (/\ Found(r) /\ req[r].route \in {"upsert", "cancel"}
            /\ req'[r].pc = "connect" /\ req'[r].op = "stored"
            /\ \E q \in Req \ {r} : Delivering(q) /\ req[q].op = "stored")
           => LET e == TheOrder(r).customerEmail
              IN /\ Keys(subscriptionsStore') \ {e} = Keys(subscriptionsStore) \ {e}
                 /\ \A k \in Keys(subscriptionsStore) \ {e} :
                      ValueUnder(subscriptionsStore', k) = ValueUnder(subscriptionsStore, k)
                 /\ IF req[r].route = "upsert"
                    THEN /\ e \in Keys(subscriptionsStore')
                         /\ ValueUnder(subscriptionsStore', e).orderId = TheOrder(r).id
                    ELSE e \notin Keys(subscriptionsStore')
                 /\ loadSubscriptions(disk') = subscriptionsStore'
        /\ (Delivering(r) /\ req'[r] # req[r] /\ req'[r].pc # "idle")
           => UNCHANGED <<subscriptionsStore, disk>> ]_vars

\* two overlapping handlers, both delivering, have stored a@x.com and then
\* b@x.com into an empty ledger, and the ledger file holds both
C34_Witness ==
  /\ nEvents = 2
  /\ \A r \in Req : Delivering(r) /\ req[r].route = "upsert" /\ req[r].op = "stored"
  /\ Len(subscriptionsStore) = 2
  /\ subscriptionsStore[1].key = "a@x.com"
  /\ subscriptionsStore[2].key = "b@x.com"
  /\ loadSubscriptions(disk) = subscriptionsStore

====
